---------------------------- MODULE Spec2Model ----------------------------
(***************************************************************************)
(* Model of the DNS cleanup scripts scripts/cleanup_cloudflare.py and      *)
(* scripts/cleanup_route53.py.                                             *)
(*                                                                         *)
(* Python strings are sequences of one-character strings, so that the      *)
(* string operations of the scripts (upper, endswith, startswith, slicing, *)
(* rstrip, replace) are computed and not assumed.  Python dicts are        *)
(* records; an absent key is an absent field.  Python None is the value    *)
(* None below, which is equal to no string.                                *)
(***************************************************************************)
EXTENDS Integers, Sequences, FiniteSets, TLC

(***************************************************************************)
(* Bounds of the model.                                                    *)
(***************************************************************************)
\* largest number of records in a zone file
MaxRecords == 2
\* largest number of live records of a zone at the provider
MaxLive == 3
\* number of live records the provider returns per page
PageSize == 2
\* the length of the relative part of a record name
MaxLabel == 2
\* the number of zone files in dns_zones
MaxZones == 2

(***************************************************************************)
(* Strings.                                                                *)
(***************************************************************************)
None == <<"None">>

LowerLetters == <<"a","b","c","d","e","f","g","h","i","j","k","l","m",
                  "n","o","p","q","r","s","t","u","v","w","x","y","z">>
UpperLetters == <<"A","B","C","D","E","F","G","H","I","J","K","L","M",
                  "N","O","P","Q","R","S","T","U","V","W","X","Y","Z">>

\* the upper-case letter of each lower-case letter
UpperOf ==
    [ch \in {LowerLetters[i] : i \in 1..26} |->
       UpperLetters[CHOOSE i \in 1..26 : LowerLetters[i] = ch]]

\* str.upper() on one character
UpperChar(ch) == IF ch \in DOMAIN UpperOf THEN UpperOf[ch] ELSE ch

\* str.upper()
Upper(s) == [i \in 1..Len(s) |-> UpperChar(s[i])]

\* str.startswith(p)
StartsWith(s, p) ==
    /\ Len(p) <= Len(s)
    /\ SubSeq(s, 1, Len(p)) = p

\* str.endswith(p)
EndsWith(s, p) ==
    /\ Len(p) <= Len(s)
    /\ SubSeq(s, Len(s) - Len(p) + 1, Len(s)) = p

\* sub in s
Contains(s, sub) ==
    \E i \in 1..(Len(s) - Len(sub) + 1) : SubSeq(s, i, i + Len(sub) - 1) = sub

\* s[1:-1]
StripEnds(s) == SubSeq(s, 2, Len(s) - 1)

\* str.rstrip(ch) for a one-character argument
RECURSIVE RStrip(_, _)
RStrip(s, ch) ==
    IF Len(s) > 0 /\ s[Len(s)] = ch
    THEN RStrip(SubSeq(s, 1, Len(s) - 1), ch)
    ELSE s

\* str.replace(old, new), old not empty
RECURSIVE Replace(_, _, _)
Replace(s, old, new) ==
    IF Len(s) = 0 THEN s
    ELSE IF StartsWith(s, old)
         THEN new \o Replace(SubSeq(s, Len(old) + 1, Len(s)), old, new)
         ELSE <<s[1]>> \o Replace(Tail(s), old, new)

\* dict.get(key, default)
Get(d, key, default) == IF key \in DOMAIN d THEN d[key] ELSE default

\* the elements of a list
Range(seq) == {seq[i] : i \in 1..Len(seq)}


(***************************************************************************)
(* Input data: the zone, the records a zone file may hold and the records  *)
(* a provider may hold.  "e.c" stands for example.com, "w" for www, "o"    *)
(* for old, "t" for a tunnelled host.                                      *)
(***************************************************************************)
Zone == <<"e", ".", "c">>
W == <<"w">>
WFqdn == <<"w", ".", "e", ".", "c">>
OFqdn == <<"o", ".", "e", ".", "c">>
TFqdn == <<"t", ".", "e", ".", "c">>
DmarcFqdn == <<"_", "d", "m", "a", "r", "c", ".", "e", ".", "c">>
TypeA == <<"A">>
TypeNS == <<"N", "S">>
TypeSOA == <<"S", "O", "A">>
TypeMX == <<"M", "X">>
TypeTXT == <<"T", "X", "T">>
TypeCNAME == <<"C", "N", "A", "M", "E">>
TypeTUNNEL == <<"T", "U", "N", "N", "E", "L">>
Quote == "\""

\* the records of dns_zones/<zone>.yml are drawn from this list
ConfigCatalogue == <<
    [type |-> <<"a">>, name |-> W, values |-> << <<"1">> >>],
    [type |-> <<"n", "s">>, name |-> Zone, values |-> << <<"n">> >>],
    [type |-> <<"S", "o", "a">>, name |-> Zone, values |-> << <<"s">> >>],
    [type |-> TypeMX, name |-> Zone,
     mx_records |-> << [priority |-> 10, value |-> <<"m", "1">>],
                       [priority |-> 20, value |-> <<"m", "2">>] >>],
    [type |-> <<"m", "x">>, name |-> Zone,
     mx_records |-> << [priority |-> 10, value |-> <<"m", "1">>] >>],
    [type |-> TypeTXT, name |-> Zone, values |-> << <<"v">>, <<"u">> >>],
    [type |-> TypeTUNNEL, name |-> <<"t">>,
     tunnel |-> [name |-> <<"h">>, service |-> <<"h", "t", "t", "p", ":", "/", "/", "x">>]],
    [type |-> TypeA, name |-> WFqdn, set_identifier |-> <<"s", "1">>,
     values |-> << <<"1">> >>],
    [type |-> TypeA, name |-> WFqdn, set_identifier |-> <<"s", "2">>,
     values |-> << <<"1">> >>],
    [type |-> TypeTXT, name |-> <<"_", "d", "m", "a", "r", "c">>,
     values |-> << <<Quote, "d", Quote>> >>]
>>

\* the records Cloudflare may hold for the zone (GET /zones/<id>/dns_records)
CloudflareCatalogue == <<
    [id |-> 1, name |-> WFqdn, type |-> TypeA, content |-> <<"1">>],
    [id |-> 2, name |-> OFqdn, type |-> TypeA, content |-> <<"5">>],
    [id |-> 3, name |-> Zone, type |-> TypeNS, content |-> <<"n">>],
    [id |-> 4, name |-> Zone, type |-> TypeSOA, content |-> <<"s">>],
    [id |-> 5, name |-> Zone, type |-> TypeA, content |-> <<"9">>],
    [id |-> 6, name |-> Zone, type |-> TypeMX, priority |-> 10, content |-> <<"m", "1">>],
    [id |-> 7, name |-> Zone, type |-> TypeMX, priority |-> 20, content |-> <<"m", "2">>],
    [id |-> 8, name |-> Zone, type |-> TypeTXT, content |-> <<Quote, "v", Quote>>],
    [id |-> 9, name |-> TFqdn, type |-> TypeCNAME, content |-> <<"h", ".", "t", "u", "n">>],
    [id |-> 10, name |-> DmarcFqdn, type |-> TypeTXT, content |-> <<Quote, "d", Quote>>]
>>

\* the record sets Route53 may hold for the zone (list_resource_record_sets)
Route53Catalogue == <<
    [Name |-> WFqdn \o <<".">>, Type |-> TypeA],
    [Name |-> OFqdn \o <<".">>, Type |-> TypeA],
    [Name |-> Zone \o <<".">>, Type |-> TypeNS],
    [Name |-> Zone \o <<".">>, Type |-> TypeSOA],
    [Name |-> Zone \o <<".">>, Type |-> TypeMX,
     ResourceRecords |-> << <<"1", "0", " ", "m", "1">>, <<"2", "0", " ", "m", "2">> >>],
    [Name |-> WFqdn \o <<".">>, Type |-> TypeA, SetIdentifier |-> <<"s", "1">>],
    [Name |-> WFqdn \o <<".">>, Type |-> TypeA, SetIdentifier |-> <<"s", "2">>],
    [Name |-> <<"\\", "0", "5", "2", ".", "e", ".", "c", ".">>, Type |-> TypeA]
>>

\* the sequence of the elements of a set of numbers, in increasing order
RECURSIVE SortedSeq(_)
SortedSeq(S) ==
    IF S = {} THEN <<>>
    ELSE LET m == CHOOSE x \in S : \A y \in S : x <= y
         IN <<m>> \o SortedSeq(S \ {m})

\* the lists of at most k elements of a catalogue, in catalogue order
Picks(catalogue, k) ==
    { [i \in 1..Cardinality(S) |-> catalogue[SortedSeq(S)[i]]] :
        S \in {T \in SUBSET (1..Len(catalogue)) : Cardinality(T) <= k} }

\* the provider part of a zone file: provider, or providers
ZoneHeaders == {
    [provider |-> "cloudflare"],
    [provider |-> "route53"],
    [providers |-> <<"route53", "cloudflare">>]
}

\* the contents dns_zones/<zone>.yml may have
ZoneFiles ==
    { h @@ [zone_name |-> Zone, records |-> recs] :
        h \in ZoneHeaders, recs \in Picks(ConfigCatalogue, MaxRecords) }

\* the zone files a script is run on: cleanup_route53.py reads neither
\* provider nor providers, one zone file of each provider stands for all
ZoneFilesOf(s) ==
    IF s = "cloudflare" THEN ZoneFiles
    ELSE { z \in ZoneFiles : "provider" \in DOMAIN z }

\* what the provider may hold for the zone, per script
LiveLists(s) ==
    Picks(IF s = "cloudflare" THEN CloudflareCatalogue ELSE Route53Catalogue, MaxLive)

(***************************************************************************)
(* cleanup_cloudflare.py: the pure parts.                                  *)
(***************************************************************************)
\* the FQDN normalisation of load_defined_records
Fqdn(name, zone_name) ==
    IF name = zone_name \/ EndsWith(name, <<".">> \o zone_name)
    THEN name
    ELSE name \o <<".">> \o zone_name

\* DefinedKeys with the type compared and stored as written in the zone file
DefinedKeys_caseSensitive(rec, zone_name) ==
    LET rtype == rec.type
        fqdn == Fqdn(rec.name, zone_name)
    IN IF rtype \in {TypeNS, TypeSOA} THEN {}
       ELSE IF rtype = TypeMX
            THEN { <<fqdn, rtype, mx.priority, mx.value>> :
                     mx \in Range(Get(rec, "mx_records", <<>>)) }
            ELSE { <<fqdn, rtype, value>> :
                     value \in Range(Get(rec, "values", <<>>)) }

\* the keys one record of the zone file adds to the set (one loop iteration)
DefinedKeys(rec, zone_name) ==
    LET rtype == Upper(rec.type)
        fqdn == Fqdn(rec.name, zone_name)
    IN IF rtype \in {TypeNS, TypeSOA} THEN {}
       ELSE IF rtype = TypeMX
            THEN { <<fqdn, rtype, mx.priority, mx.value>> :
                     mx \in Range(Get(rec, "mx_records", <<>>)) }
            ELSE { <<fqdn, rtype, value>> :
                     value \in Range(Get(rec, "values", <<>>)) }

load_defined_records(zone_data, zone_name) ==
    UNION { DefinedKeys(rec, zone_name) : rec \in Range(Get(zone_data, "records", <<>>)) }

\* is_cloudflare of main
is_cloudflare(zone_data) ==
    \/ Get(zone_data, "provider", "None") = "cloudflare"
    \/ "cloudflare" \in Range(Get(zone_data, "providers", <<>>))

\* LiveContent without the quote stripping
LiveContent_noStrip(record) == record.content

\* content as main compares it: a TXT content loses its surrounding quotes
LiveContent(record) ==
    LET rtype == Upper(record.type)
        content == record.content
    IN IF rtype = TypeTXT /\ Len(content) > 0
          /\ StartsWith(content, <<Quote>>) /\ EndsWith(content, <<Quote>>)
       THEN StripEnds(content)
       ELSE content

\* LiveKey without the MX branch
LiveKey_noPriority(record) == <<record.name, Upper(record.type), LiveContent(record)>>

\* the key main builds for a live record
LiveKey(record) ==
    LET rtype == Upper(record.type)
    IN IF rtype = TypeMX
       THEN <<record.name, rtype, record.priority, record.content>>
       ELSE <<record.name, rtype, LiveContent(record)>>

\* a live record main skips before any comparison
SkipLive(record) == Upper(record.type) \in {TypeNS, TypeSOA}

\* should_delete with the membership test inverted
should_delete_inverted(record, defined_keys) == LiveKey(record) \in defined_keys

\* should_delete of main, for a record that was not skipped
should_delete(record, defined_keys) == LiveKey(record) \notin defined_keys

\* total_pages of a client that reads the first page only
total_pages_single(n) == 1

\* the number of pages of a listing
total_pages(n) == (n + PageSize - 1) \div PageSize

\* get_dns_records with the list of an earlier call kept
all_records_kept(previous) == previous

\* get_dns_records, line 74: all_records = []
all_records_new(previous) == <<>>

\* page number p of a listing
PageOf(listing, p) ==
    SubSeq(listing, (p - 1) * PageSize + 1,
           IF p * PageSize < Len(listing) THEN p * PageSize ELSE Len(listing))

\* the line delete_dns_record prints for a record
DeleteLine(record, dry) ==
    IF dry
    THEN <<"Would delete", record.name, Upper(record.type),
           IF Upper(record.type) = TypeMX THEN record.content ELSE LiveContent(record)>>
    ELSE <<"Deleting", record.name, Upper(record.type)>>

\* Without, removing the head of the listing instead of the record
Without_head(listing, record) == Tail(listing)

\* a listing without one of its records
Without(listing, record) == SelectSeq(listing, LAMBDA r : r # record)

(***************************************************************************)
(* cleanup_route53.py: the pure parts.                                     *)
(***************************************************************************)
\* the FQDN normalisation of load_defined_records, line 18
r53_Fqdn(name, zone_name) ==
    IF name = zone_name \/ EndsWith(name, <<".">> \o zone_name)
    THEN name
    ELSE name \o <<".">> \o zone_name

\* r53_DefinedKeys without the set identifier
r53_DefinedKeys_noSetId(rec, zone_name) ==
    LET rtype == Upper(rec.type)
    IN IF rtype \in {TypeNS, TypeSOA} THEN {}
       ELSE { <<r53_Fqdn(rec.name, zone_name), rtype, None>> }

\* the key one record of the zone file adds to the set (one loop iteration)
r53_DefinedKeys(rec, zone_name) ==
    LET rtype == Upper(rec.type)
    IN IF rtype \in {TypeNS, TypeSOA} THEN {}
       ELSE { <<r53_Fqdn(rec.name, zone_name), rtype, Get(rec, "set_identifier", None)>> }

r53_load_defined_records(zone_data, zone_name) ==
    UNION { r53_DefinedKeys(rec, zone_name) :
              rec \in Range(Get(zone_data, "records", <<>>)) }

\* the name the script gives a live record set
r53_name(record) == Replace(RStrip(record.Name, "."), <<"\\", "0", "5", "2">>, <<"*">>)

\* the key the script builds for a live record set
r53_key(record) == <<r53_name(record), record.Type, Get(record, "SetIdentifier", None)>>

\* the line the script prints before it deletes a record set
r53_DeleteLine(record) == <<"Deleting", r53_name(record), record.Type>>

\* a live record set the script skips before any comparison
r53_skip(record) == record.Type \in {TypeNS, TypeSOA}

(***************************************************************************)
(* The record name normalisation of the other scripts.                     *)
(***************************************************************************)
\* import_route53.py line 43
import_Fqdn(name, zone_name) ==
    IF name = zone_name \/ EndsWith(name, <<".">> \o zone_name)
    THEN name
    ELSE name \o <<".">> \o zone_name

\* security_scan.py, scan_zone_file lines 320-326
scan_full_name(name, zone_name) ==
    IF name = zone_name \/ name = <<"@">> THEN zone_name
    ELSE IF name = <<"*">> THEN <<"*", ".">> \o zone_name
    ELSE name \o <<".">> \o zone_name

\* the sequences over the set S of length at most n
RECURSIVE SeqsUpTo(_, _)
SeqsUpTo(S, n) ==
    IF n = 0 THEN {<<>>}
    ELSE LET shorter == SeqsUpTo(S, n - 1)
         IN shorter \cup { <<x>> \o t : x \in S, t \in {u \in shorter : Len(u) = n - 1} }

\* the record names the normalisations are tried on: a relative part of at
\* most MaxLabel characters, followed by nothing, by the zone name with or
\* without its dot, or by an end of the zone name
NameInputs ==
    { p \o q : p \in SeqsUpTo({"w", "*", "@", "."}, MaxLabel),
                q \in {<<>>, Zone, <<".">> \o Zone, <<".", "c">>} } \ {<<>>}

(***************************************************************************)
(* validate_zones.py: the values of a parsed YAML document.  A value       *)
(* carries its Python type in ty; a mapping whose keys are fixed field     *)
(* names is a record in d, a mapping whose keys are data (tunnels) is the  *)
(* sequence of its (key, value) pairs in document order.                   *)
(***************************************************************************)
Str(s) == [ty |-> "str", s |-> s]
PyInt(n) == [ty |-> "int", n |-> n]
PyBool(b) == [ty |-> "bool", b |-> b]
PyNone == [ty |-> "NoneType"]
PyList(items) == [ty |-> "list", items |-> items]
PyDict(d) == [ty |-> "dict", d |-> d]
PyMap(pairs) == [ty |-> "dict", pairs |-> pairs]

\* a dict with no key
Empty == [k \in {} |-> PyNone]

isinstance(x, ty) == x.ty = ty

\* hash(x) succeeds: lists and dicts are unhashable
hashable(x) == x.ty \notin {"list", "dict"}

\* the concatenation of a sequence of sequences
RECURSIVE Concat(_)
Concat(ss) == IF ss = <<>> THEN <<>> ELSE Head(ss) \o Concat(Tail(ss))

CloudflareName == <<"c", "l", "o", "u", "d", "f", "l", "a", "r", "e">>
Route53Name == <<"r", "o", "u", "t", "e", "5", "3">>
YmlSuffix == <<".", "y", "m", "l">>
HttpService == <<"h", "t", "t", "p", ":", "/", "/", "x">>
TypeAAAA == <<"A", "A", "A", "A">>

SUPPORTED_PROVIDERS == {Route53Name, CloudflareName}

PROXIABLE_RECORD_TYPES == {TypeA, TypeAAAA, TypeCNAME}

\* the prefixes line 178 accepts
ServicePrefixes == {
    <<"h", "t", "t", "p", ":", "/", "/">>,
    <<"h", "t", "t", "p", "s", ":", "/", "/">>,
    <<"t", "c", "p", ":", "/", "/">>,
    <<"u", "d", "p", ":", "/", "/">>,
    <<"s", "s", "h", ":", "/", "/">>,
    <<"r", "d", "p", ":", "/", "/">>,
    <<"u", "n", "i", "x", ":", "/", "/">>,
    <<"u", "n", "i", "x", "+", "t", "l", "s", ":", "/", "/">> }

\* the messages: the text that names the rule, then the values the f-string
\* inserts
RecordMessage(i, record_name, record_type, text) ==
    <<"Record at index", i, record_name, record_type, text>>

\* lines 62-70
ZoneNameErrors(data, file_name) ==
    IF "zone_name" \notin DOMAIN data
    THEN << <<"Missing required field: zone_name">> >>
    ELSE IF file_name # data.zone_name.s \o YmlSuffix
    THEN << <<"Filename does not match zone_name", file_name, data.zone_name.s>> >>
    ELSE <<>>

\* lines 76-81
uses_cloudflare(data) ==
    IF "provider" \in DOMAIN data /\ isinstance(data.provider, "str")
    THEN data.provider.s = CloudflareName
    ELSE IF "providers" \in DOMAIN data /\ isinstance(data.providers, "list")
    THEN Str(CloudflareName) \in Range(data.providers.items)
    ELSE FALSE

\* lines 102-106, one entry of the providers list
ProviderEntryErrors(i, provider) ==
    IF ~isinstance(provider, "str")
    THEN << <<"Provider at index must be a string", i, provider.ty>> >>
    ELSE IF provider.s \notin SUPPORTED_PROVIDERS
    THEN << <<"Unsupported provider at index", provider.s, i>> >>
    ELSE <<>>

\* the number a bool or an int is in a comparison: True is 1, False is 0
py_number(x) == IF x.ty = "bool" THEN (IF x.b THEN 1 ELSE 0) ELSE x.n

\* x == y for two hashable values, as set() tests it: bool and int compare
\* as numbers (1 == True, 0 == False), other values only within their type
py_eq(x, y) ==
    IF x.ty \in {"int", "bool"} /\ y.ty \in {"int", "bool"}
    THEN py_number(x) = py_number(y)
    ELSE x.ty = y.ty /\ x = y

\* line 109: len(providers) != len(set(providers)), some entry equals an
\* earlier one
has_duplicates(items) ==
    \E k, l \in 1..Len(items) : k < l /\ py_eq(items[k], items[l])

\* lines 83-110; raised: len(set(providers)) met an unhashable entry
ProviderCheck(data) ==
    LET has_provider == "provider" \in DOMAIN data
        has_providers == "providers" \in DOMAIN data
        ok(errs) == [raised |-> FALSE, errors |-> errs]
    IN IF ~has_provider /\ ~has_providers
       THEN ok(<< <<"Missing required field: either 'provider' or 'providers'">> >>)
       ELSE IF has_provider /\ has_providers
       THEN ok(<< <<"Cannot specify both 'provider' and 'providers' fields">> >>)
       ELSE IF has_provider
       THEN LET provider == data.provider
            IN IF ~isinstance(provider, "str")
               THEN ok(<< <<"Provider must be a string", provider.ty>> >>)
               ELSE IF provider.s \notin SUPPORTED_PROVIDERS
               THEN ok(<< <<"Unsupported provider", provider.s>> >>)
               ELSE ok(<<>>)
       ELSE LET providers == data.providers
            IN IF ~isinstance(providers, "list")
               THEN ok(<< <<"Providers must be a list", providers.ty>> >>)
               ELSE IF Len(providers.items) = 0
               THEN ok(<< <<"Providers list cannot be empty">> >>)
               ELSE LET each == Concat([i \in 1..Len(providers.items) |->
                                           ProviderEntryErrors(i - 1, providers.items[i])])
                    IN IF \E p \in Range(providers.items) : ~hashable(p)
                       THEN [raised |-> TRUE, errors |-> each]
                       ELSE IF has_duplicates(providers.items)
                       THEN ok(each \o << <<"Duplicate providers found in providers list">> >>)
                       ELSE ok(each)

\* lines 123-135, one entry of the zone's tunnels: its errors and whether it
\* is added to tunnel_definitions
TunnelEntry(tunnel_name, tunnel_config) ==
    IF ~isinstance(tunnel_config, "dict")
    THEN [errors |-> << <<"Tunnel configuration must be a dictionary/object", tunnel_name>> >>,
          added |-> FALSE]
    ELSE [errors |->
            IF "tunnel_id" \notin DOMAIN tunnel_config.d
            THEN << <<"Tunnel is missing required field: tunnel_id", tunnel_name>> >>
            ELSE IF ~isinstance(tunnel_config.d.tunnel_id, "str")
            THEN << <<"Tunnel tunnel_id must be a string", tunnel_name>> >>
            ELSE <<>>,
          added |-> TRUE]

\* lines 112-135: errors, warnings and the names of tunnel_definitions
TunnelsCheck(data, global_names) ==
    IF "tunnels" \notin DOMAIN data
    THEN [errors |-> <<>>, warnings |-> <<>>, definitions |-> global_names]
    ELSE IF ~uses_cloudflare(data)
    THEN [errors |-> <<>>,
          warnings |-> << <<"'tunnels' field is defined but this zone does not use Cloudflare">> >>,
          definitions |-> global_names]
    ELSE IF ~isinstance(data.tunnels, "dict")
    THEN [errors |-> << <<"'tunnels' field must be a dictionary/object">> >>,
          warnings |-> <<>>, definitions |-> global_names]
    ELSE LET pairs == data.tunnels.pairs
             entry(k) == TunnelEntry(pairs[k][1], pairs[k][2])
         IN [errors |-> Concat([k \in 1..Len(pairs) |-> entry(k).errors]),
             warnings |-> <<>>,
             definitions |-> global_names
                 \cup { pairs[k][1] : k \in {j \in 1..Len(pairs) : entry(j).added} }]

\* line 170: tunnel['name'] not in tunnel_definitions
is_undefined_tunnel(tunnel_name, tunnel_definitions) ==
    tunnel_name \notin tunnel_definitions

\* lines 157-179: the tunnel field of a TUNNEL record
TunnelFieldErrors(i, record, record_name, record_type, tunnel_definitions) ==
    LET msg(text) == RecordMessage(i, record_name, record_type, text)
    IN IF "tunnel" \notin DOMAIN record
       THEN << msg("Missing required 'tunnel' field") >>
       ELSE IF ~isinstance(record.tunnel, "dict")
       THEN << msg("'tunnel' field must be a dictionary/object") >>
       ELSE LET tunnel == record.tunnel.d
            IN (IF "name" \notin DOMAIN tunnel
                THEN << msg("Missing required 'tunnel.name' field") >>
                ELSE IF ~isinstance(tunnel.name, "str")
                THEN << msg("'tunnel.name' must be a string") >>
                ELSE IF is_undefined_tunnel(tunnel.name.s, tunnel_definitions)
                THEN << msg("Referenced tunnel is not defined in 'tunnels' section")
                          \o <<tunnel.name.s>> >>
                ELSE <<>>)
               \o
               (IF "service" \notin DOMAIN tunnel
                THEN << msg("Missing required 'tunnel.service' field") >>
                ELSE IF ~isinstance(tunnel.service, "str")
                THEN << msg("'tunnel.service' must be a string") >>
                ELSE IF ~\E p \in ServicePrefixes : StartsWith(tunnel.service.s, p)
                THEN << msg("'tunnel.service' must start with a valid protocol") >>
                ELSE <<>>)

\* lines 213-224, one entry of mx_records
MxEntryErrors(i, j, mx) ==
    IF ~isinstance(mx, "dict")
    THEN << <<"MX record at index, mx_records[j] must be an object", i, j>> >>
    ELSE (IF "priority" \notin DOMAIN mx.d
          THEN << <<"MX record at index, mx_records[j] missing 'priority' field", i, j>> >>
          ELSE IF mx.d.priority.ty \notin {"int", "bool"}
          THEN << <<"MX record at index, mx_records[j] priority must be an integer", i, j>> >>
          ELSE <<>>)
         \o
         (IF "value" \notin DOMAIN mx.d
          THEN << <<"MX record at index, mx_records[j] missing 'value' field", i, j>> >>
          ELSE IF ~isinstance(mx.d.value, "str")
          THEN << <<"MX record at index, mx_records[j] value must be a string", i, j>> >>
          ELSE <<>>)

\* lines 195-201: on a zone that does not use Cloudflare the proxied field
\* gets a warning and its type is not tested
proxied_warning_only(cloudflare) == ~cloudflare

\* lines 189-206: the proxied field of a record that is not a TUNNEL record
ProxiedCheck(i, record, record_name, record_type, cloudflare) ==
    LET msg(text) == RecordMessage(i, record_name, record_type, text)
    IN IF "proxied" \notin DOMAIN record
       THEN [errors |-> <<>>, warnings |-> <<>>]
       ELSE IF ~isinstance(record.proxied, "bool")
       THEN [errors |-> << msg("'proxied' field must be a boolean (true/false)") >>,
             warnings |-> <<>>]
       ELSE IF proxied_warning_only(cloudflare)
       THEN [errors |-> <<>>,
             warnings |-> << msg("'proxied' field is set but this zone does not use Cloudflare as a provider") >>]
       ELSE IF record.proxied.b /\ record_type \notin PROXIABLE_RECORD_TYPES
       THEN [errors |-> << msg("Cannot set 'proxied: true'") >>, warnings |-> <<>>]
       ELSE [errors |-> <<>>, warnings |-> <<>>]

\* lines 144-224: one turn of the record loop; raised: the type has no upper()
RecordCheck(i, rec, cloudflare, tunnel_definitions) ==
    IF ~isinstance(rec, "dict")
    THEN [raised |-> FALSE, warnings |-> <<>>,
          errors |-> << <<"Record at index must be an object", i>> >>]
    ELSE LET record == rec.d
             type_value == Get(record, "type", Str(<<>>))
         IN IF ~isinstance(type_value, "str")
            THEN [raised |-> TRUE, errors |-> <<>>, warnings |-> <<>>]
            ELSE
            LET record_type == Upper(type_value.s)
                record_name == Get(record, "name", Str(<<"<", "u", "n", "n", "a", "m", "e", "d", ">">>))
                msg(text) == RecordMessage(i, record_name, record_type, text)
            IN IF record_type = TypeTUNNEL
               THEN [raised |-> FALSE,
                     errors |->
                        (IF ~cloudflare
                         THEN << msg("TUNNEL records are only supported on Cloudflare zones") >>
                         ELSE <<>>)
                        \o TunnelFieldErrors(i, record, record_name, record_type,
                                             tunnel_definitions),
                     warnings |->
                        (IF "values" \in DOMAIN record
                         THEN << msg("'values' field is ignored for TUNNEL records") >>
                         ELSE <<>>)
                        \o (IF "proxied" \in DOMAIN record
                            THEN << msg("'proxied' field is ignored for TUNNEL records") >>
                            ELSE <<>>)]
               ELSE LET proxied == ProxiedCheck(i, record, record_name, record_type, cloudflare)
                    IN [raised |-> FALSE,
                        errors |-> proxied.errors \o
                           (IF record_type = TypeMX /\ "mx_records" \in DOMAIN record
                            THEN IF ~isinstance(record.mx_records, "list")
                                 THEN << <<"MX record at index: mx_records must be a list", i>> >>
                                 ELSE Concat([j \in 1..Len(record.mx_records.items) |->
                                        MxEntryErrors(i, j - 1, record.mx_records.items[j])])
                            ELSE <<>>),
                        warnings |-> proxied.warnings]

\* lines 137-224: the records field
RecordsCheck(data, cloudflare, tunnel_definitions) ==
    IF "records" \notin DOMAIN data
    THEN [raised |-> FALSE, warnings |-> <<>>,
          errors |-> << <<"Missing required field: records">> >>]
    ELSE IF ~isinstance(data.records, "list")
    THEN [raised |-> FALSE, warnings |-> <<>>,
          errors |-> << <<"Records field must be a list">> >>]
    ELSE LET items == data.records.items
             each == [i \in 1..Len(items) |->
                        RecordCheck(i - 1, items[i], cloudflare, tunnel_definitions)]
         IN [raised |-> \E i \in 1..Len(items) : each[i].raised,
             errors |-> Concat([i \in 1..Len(items) |-> each[i].errors]),
             warnings |-> Concat([i \in 1..Len(items) |-> each[i].warnings])]

\* lines 269-280 with warnings counted as failures
exit_status_strict(n_errors, n_warnings) == IF n_errors + n_warnings > 0 THEN 1 ELSE 0

\* lines 269-280: the status main exits with
exit_status(n_errors, n_warnings) == IF n_errors > 0 THEN 1 ELSE 0

\* what a call of validate_zone_file ends with when an exception leaves it
Raised == [raised |-> TRUE, errors |-> <<>>, warnings |-> <<>>]

\* lines 43-226
validate_zone_file(file, file_name, global_names) ==
    IF file.yaml = "error"
    THEN [raised |-> FALSE, errors |-> << <<"YAML parsing error">> >>, warnings |-> <<>>]
    ELSE IF ~isinstance(file.data, "dict")
    THEN [raised |-> FALSE, errors |-> << <<"Zone file must contain a YAML object">> >>,
          warnings |-> <<>>]
    ELSE LET data == file.data.d
             provider == ProviderCheck(data)
             tunnels == TunnelsCheck(data, global_names)
             records == RecordsCheck(data, uses_cloudflare(data), tunnels.definitions)
         IN IF provider.raised \/ records.raised
            THEN Raised
            ELSE [raised |-> FALSE,
                  errors |-> ZoneNameErrors(data, file_name) \o provider.errors
                                \o tunnels.errors \o records.errors,
                  warnings |-> tunnels.warnings \o records.warnings]

(***************************************************************************)
(* validate_zones.py: the zone files of dns_zones.  "h" is a tunnel the    *)
(* zone file may define, "g" a tunnel of cloudflare_tunnels.yml, "u" a     *)
(* tunnel nobody defines.                                                  *)
(***************************************************************************)
FileName == Zone \o YmlSuffix
TunnelH == <<"h">>
TunnelG == <<"g">>
TunnelU == <<"u">>

ZoneNameOptions == {
    Empty,
    [zone_name |-> Str(Zone)],
    [zone_name |-> Str(<<"x">>)] }

ProviderOptions == {
    Empty,
    [provider |-> Str(CloudflareName)],
    [provider |-> Str(Route53Name)],
    [provider |-> Str(<<"x">>)],
    [provider |-> PyInt(5)],
    [provider |-> Str(CloudflareName), providers |-> PyList(<<Str(Route53Name)>>)],
    [providers |-> PyList(<<>>)],
    [providers |-> PyList(<<Str(Route53Name), Str(CloudflareName)>>)],
    [providers |-> PyList(<<Str(CloudflareName), Str(CloudflareName)>>)],
    [providers |-> PyList(<<Str(<<"x">>)>>)],
    [providers |-> Str(CloudflareName)],
    [providers |-> PyList(<<PyInt(5)>>)],
    [providers |-> PyList(<<PyInt(1), PyBool(TRUE)>>)],
    [providers |-> PyList(<<PyList(<<Str(CloudflareName)>>)>>)] }

TunnelsOptions == {
    Empty,
    [tunnels |-> PyMap(<< <<TunnelH, PyDict([tunnel_id |-> Str(<<"i">>)])>> >>)],
    [tunnels |-> PyMap(<< <<TunnelH, Str(<<"i">>)>> >>)],
    [tunnels |-> PyMap(<< <<TunnelH, PyDict(Empty)>> >>)] }

\* the entries of the records list of a zone file are drawn from this list
ValidatorCatalogue == <<
    PyDict([name |-> Str(W), type |-> Str(<<"c", "n", "a", "m", "e">>),
            proxied |-> PyBool(TRUE), values |-> PyList(<<Str(<<"x">>)>>)]),
    PyDict([name |-> Str(Zone), type |-> Str(TypeTXT),
            proxied |-> PyBool(TRUE), values |-> PyList(<<Str(<<"v">>)>>)]),
    PyDict([name |-> Str(W), type |-> Str(TypeA), proxied |-> Str(<<"y", "e", "s">>)]),
    PyDict([name |-> Str(<<"t">>), type |-> Str(TypeTUNNEL),
            tunnel |-> PyDict([name |-> Str(TunnelH), service |-> Str(HttpService)])]),
    PyDict([name |-> Str(<<"t">>), type |-> Str(<<"t", "u", "n", "n", "e", "l">>),
            tunnel |-> PyDict([name |-> Str(TunnelU), service |-> Str(<<"x">>)]),
            proxied |-> PyBool(TRUE)]),
    PyDict([name |-> Str(<<"t">>), type |-> Str(TypeTUNNEL),
            tunnel |-> PyDict([name |-> Str(TunnelG)])]),
    PyDict([name |-> Str(W), type |-> PyNone])
>>

RecordsOptions ==
    {Empty, [records |-> Str(<<"s">>)]}
    \cup { [records |-> PyList(p)] : p \in Picks(ValidatorCatalogue, MaxRecords) }

\* what yaml.safe_load makes of a file of dns_zones: a parse error, a
\* document that is not a mapping, or a mapping
ZoneDocuments ==
    {[yaml |-> "error"], [yaml |-> "ok", data |-> PyList(<<>>)]}
    \cup { [yaml |-> "ok", data |-> PyDict(z @@ p @@ t @@ r)] :
              z \in ZoneNameOptions, p \in ProviderOptions,
              t \in TunnelsOptions, r \in RecordsOptions }

\* the tunnel names cloudflare_tunnels.yml defines
GlobalTunnels == {{TunnelG}}

\* no zone file is being validated
NoDocument == [yaml |-> "none"]

(***************************************************************************)
(* State.                                                                  *)
(***************************************************************************)
VARIABLES
    script,            \* the script that runs: "cloudflare" or "route53"
    zone_file,         \* the content of the zone file in dns_zones
    hosted,            \* the provider has a zone of that name
    live,              \* the records the provider held when the script started
    remote,            \* the records the provider holds for the zone
    pc,                \* the script's position
    dry_run,           \* --dry-run / DRY_RUN (cleanup_cloudflare.py)
    defined,           \* the set load_defined_records returned
    existing_records,  \* the records fetched: all pages (Cloudflare), the page (Route53)
    page,              \* the number of the page last asked for
    idx,               \* the position of the record loop in existing_records
    marker,            \* the record set the next page starts with (Route53)
    toDelete,          \* the live records a delete call was made for
    output,            \* the lines printed
    first,             \* the first of two passes: its zone file, snapshot and result
    rec_name,          \* the name of a zone file record given to a normalisation
    normalizer,        \* the script that normalised rec_name
    full_name,         \* the name that script made of it
    global_tunnels,    \* validate_zones.py: the names of the global tunnels
    processed,         \* the number of zone files the loop of main has taken
    zone_doc,          \* the content of the zone file being validated
    vpc,               \* the position of validate_zones.py
    errors,            \* the errors validate_zone_file returned for zone_doc
    warnings,          \* the warnings validate_zone_file returned for zone_doc
    total_errors,      \* main's count of errors
    total_warnings,    \* main's count of warnings
    failed_zones,      \* the number of zone files that had an error so far
    exit_code          \* the exit status of validate_zones.py, -1 while it runs

names_vars == <<rec_name, normalizer, full_name>>

validator_vars == <<global_tunnels, processed, zone_doc, vpc, errors, warnings,
                    total_errors, total_warnings, failed_zones, exit_code>>

vars == <<script, zone_file, hosted, live, remote, pc, dry_run, defined,
          existing_records, page, marker, idx, toDelete, output, first, names_vars,
          validator_vars>>

\* what a cleanup run reads and never writes
world == <<script, zone_file, hosted, live, first, names_vars, validator_vars>>

\* no pass has gone before
NoFirst == [done |-> FALSE]

\* validate_zones.py does not run
ValidatorIdle ==
    /\ global_tunnels = {}
    /\ processed = 0
    /\ zone_doc = NoDocument
    /\ vpc = "idle"
    /\ errors = <<>>
    /\ warnings = <<>>
    /\ total_errors = 0
    /\ total_warnings = 0
    /\ failed_zones = 0
    /\ exit_code = -1

\* no name normalisation is being tried
NamesIdle ==
    /\ rec_name = <<>>
    /\ normalizer = "none"
    /\ full_name = <<>>

Init ==
    /\ script \in {"cloudflare", "route53"}
    /\ zone_file \in ZoneFilesOf(script)
    /\ hosted \in BOOLEAN
    /\ live \in (IF hosted THEN LiveLists(script) ELSE {<<>>})
    /\ remote = live
    /\ pc = "start"
    /\ dry_run = FALSE
    /\ defined = {}
    /\ existing_records = <<>>
    /\ page = 0
    /\ idx = 0
    /\ marker = <<>>
    /\ toDelete = {}
    /\ output = {}
    /\ first = NoFirst
    /\ NamesIdle
    /\ ValidatorIdle

(***************************************************************************)
(* cleanup_cloudflare.py, main.                                            *)
(***************************************************************************)
\* lines 121-179 up to the first page request: the arguments, the zone file,
\* the provider test, load_defined_records and get_zone_id
CfStart ==
    /\ script = "cloudflare"
    /\ pc = "start"
    /\ \E dr \in (IF first.done THEN {dry_run} ELSE BOOLEAN) :
        LET zone_name == zone_file.zone_name
            keys == load_defined_records(zone_file, zone_name)
        IN /\ dry_run' = dr
           /\ IF ~is_cloudflare(zone_file)
              THEN /\ pc' = "done"
                   /\ UNCHANGED <<defined, output>>
              ELSE /\ defined' = keys
                   /\ output' = {<<"Processing zone", zone_name>>}
                                \cup (IF hosted THEN {} ELSE {<<"Zone not found">>})
                   /\ pc' = IF hosted THEN "fetch" ELSE "done"
    /\ page' = 1
    /\ UNCHANGED <<world, remote, existing_records, idx, marker, toDelete>>

\* get_dns_records: one turn of the page loop
CfFetchPage ==
    /\ script = "cloudflare"
    /\ pc = "fetch"
    /\ existing_records' =
          (IF page = 1 THEN all_records_new(existing_records) ELSE existing_records)
          \o PageOf(remote, page)
    /\ IF page >= total_pages(Len(remote))
       THEN /\ pc' = IF Len(existing_records') = 0 THEN "done" ELSE "check"
            /\ idx' = 1
            /\ page' = page
       ELSE /\ page' = page + 1
            /\ UNCHANGED <<pc, idx>>
    /\ UNCHANGED <<world, remote, dry_run, defined, marker, toDelete, output>>

\* the position after the record at idx
AfterRecord == IF idx >= Len(existing_records) THEN "done" ELSE "check"

\* main, lines 182-227: one turn of the record loop, delete_dns_record included
CfCheckRecord ==
    /\ script = "cloudflare"
    /\ pc = "check"
    /\ LET record == existing_records[idx]
       IN IF SkipLive(record)
          THEN /\ pc' = AfterRecord
               /\ UNCHANGED <<remote, toDelete, output>>
          ELSE IF ~should_delete(record, defined)
          THEN /\ pc' = AfterRecord
               /\ UNCHANGED <<remote, toDelete, output>>
          ELSE /\ toDelete' = toDelete \cup {record}
               /\ output' = output \cup {DeleteLine(record, dry_run)}
               /\ IF dry_run
                  THEN /\ pc' = AfterRecord
                       /\ UNCHANGED remote
                  ELSE /\ \E ok \in BOOLEAN :
                            IF ok
                            THEN /\ remote' = Without(remote, record)
                                 /\ pc' = AfterRecord
                            ELSE /\ pc' = "failed"
                                 /\ UNCHANGED remote
    /\ idx' = idx + 1
    /\ UNCHANGED <<world, dry_run, defined, existing_records, page, marker>>

(***************************************************************************)
(* cleanup_route53.py, the module's loop.                                  *)
(***************************************************************************)
\* lines 23-38: the zone file, load_defined_records, the hosted zone lookup
R53Start ==
    /\ script = "route53"
    /\ pc = "start"
    /\ defined' = r53_load_defined_records(zone_file, zone_file.zone_name)
    /\ pc' = IF hosted THEN "fetch" ELSE "done"
    /\ page' = 0
    /\ UNCHANGED <<world, remote, dry_run, existing_records, idx, toDelete,
                   output, marker>>

\* the position in the provider's listing at which the next page starts
NextPos == IF page = 0 THEN 1 ELSE CHOOSE i \in 1..Len(remote) : remote[i] = marker[1]

\* line 39: the paginator yields the next page; the provider names the record
\* set the page after it starts with
R53FetchPage ==
    /\ script = "route53"
    /\ pc = "fetch"
    /\ LET pos == NextPos
           last == IF pos + PageSize - 1 < Len(remote) THEN pos + PageSize - 1
                   ELSE Len(remote)
       IN /\ existing_records' = SubSeq(remote, pos, last)
          /\ marker' = IF last < Len(remote) THEN <<remote[last + 1]>> ELSE <<>>
          /\ pc' = IF last < pos THEN "done" ELSE "check"
    /\ page' = page + 1
    /\ idx' = 1
    /\ UNCHANGED <<world, remote, dry_run, defined, toDelete, output>>

\* the position after the record set at idx
R53AfterRecord ==
    IF idx < Len(existing_records) THEN "check"
    ELSE IF Len(marker) > 0 THEN "fetch" ELSE "done"

\* lines 40-56: one turn of the record loop, the delete call included
R53CheckRecord ==
    /\ script = "route53"
    /\ pc = "check"
    /\ LET record == existing_records[idx]
       IN IF r53_skip(record) \/ r53_key(record) \in defined
          THEN /\ pc' = R53AfterRecord
               /\ UNCHANGED <<remote, toDelete, output>>
          ELSE /\ toDelete' = toDelete \cup {record}
               /\ output' = output \cup {r53_DeleteLine(record)}
               /\ \E ok \in BOOLEAN :
                    IF ok
                    THEN /\ remote' = Without(remote, record)
                         /\ pc' = R53AfterRecord
                    ELSE /\ pc' = "failed"
                         /\ UNCHANGED remote
    /\ idx' = idx + 1
    /\ UNCHANGED <<world, dry_run, defined, existing_records, page, marker>>

Next ==
    \/ CfStart
    \/ CfFetchPage
    \/ CfCheckRecord
    \/ R53Start
    \/ R53FetchPage
    \/ R53CheckRecord

Spec == Init /\ [][Next]_vars

(***************************************************************************)
(* Two turns of the zone file loop of a cleanup script: dns_zones holds    *)
(* two zone files of the zone.                                             *)
(***************************************************************************)
InitTwice ==
    /\ script \in {"cloudflare", "route53"}
    /\ zone_file \in { z \in ZoneFilesOf(script) : Len(z.records) < MaxRecords }
    /\ hosted \in BOOLEAN
    /\ live \in (IF hosted THEN LiveLists(script) ELSE {<<>>})
    /\ remote = live
    /\ pc = "start"
    /\ dry_run = FALSE
    /\ defined = {}
    /\ existing_records = <<>>
    /\ page = 0
    /\ idx = 0
    /\ marker = <<>>
    /\ toDelete = {}
    /\ output = {}
    /\ first = NoFirst
    /\ NamesIdle
    /\ ValidatorIdle

\* cleanup_cloudflare.py line 140, cleanup_route53.py line 23: the loop takes
\* the second zone file, which is the first one again or has no records; the
\* variables of the script keep their values
NextZoneFile ==
    /\ pc = "done"
    /\ ~first.done
    /\ first' = [done |-> TRUE, zone_file |-> zone_file, live |-> live,
                 toDelete |-> toDelete]
    /\ zone_file' \in {zone_file, [zone_file EXCEPT !.records = <<>>]}
    /\ live' = remote
    /\ toDelete' = {}
    /\ output' = {}
    /\ pc' = "start"
    /\ UNCHANGED <<script, hosted, remote, dry_run, defined, existing_records,
                   page, idx, marker, names_vars, validator_vars>>

NextTwice ==
    \/ CfStart
    \/ CfFetchPage
    \/ CfCheckRecord
    \/ R53Start
    \/ R53FetchPage
    \/ R53CheckRecord
    \/ NextZoneFile

SpecTwice == InitTwice /\ [][NextTwice]_vars

(***************************************************************************)
(* The record name normalisations, each applied to a record name.          *)
(***************************************************************************)
cleanup_vars == <<script, zone_file, hosted, live, remote, pc, dry_run, defined,
                  existing_records, page, marker, idx, toDelete, output, first>>

\* no cleanup script runs
CleanupIdle ==
    /\ script = "none"
    /\ zone_file = [zone_name |-> Zone, records |-> <<>>]
    /\ hosted = FALSE
    /\ live = <<>>
    /\ remote = <<>>
    /\ pc = "idle"
    /\ dry_run = FALSE
    /\ defined = {}
    /\ existing_records = <<>>
    /\ page = 0
    /\ idx = 0
    /\ marker = <<>>
    /\ toDelete = {}
    /\ output = {}
    /\ first = NoFirst

InitNames ==
    /\ CleanupIdle
    /\ ValidatorIdle
    /\ rec_name \in NameInputs
    /\ normalizer = "none"
    /\ full_name = <<>>

\* cleanup_cloudflare.py, load_defined_records lines 32-37
CfNormalize ==
    /\ normalizer = "none"
    /\ normalizer' = "cleanup_cloudflare"
    /\ full_name' = Fqdn(rec_name, Zone)
    /\ UNCHANGED <<cleanup_vars, validator_vars, rec_name>>

\* cleanup_route53.py, load_defined_records lines 17-18
R53Normalize ==
    /\ normalizer = "none"
    /\ normalizer' = "cleanup_route53"
    /\ full_name' = r53_Fqdn(rec_name, Zone)
    /\ UNCHANGED <<cleanup_vars, validator_vars, rec_name>>

\* import_route53.py lines 42-43
ImportNormalize ==
    /\ normalizer = "none"
    /\ normalizer' = "import_route53"
    /\ full_name' = import_Fqdn(rec_name, Zone)
    /\ UNCHANGED <<cleanup_vars, validator_vars, rec_name>>

\* security_scan.py, scan_zone_file lines 318-326
ScanNormalize ==
    /\ normalizer = "none"
    /\ normalizer' = "security_scan"
    /\ full_name' = scan_full_name(rec_name, Zone)
    /\ UNCHANGED <<cleanup_vars, validator_vars, rec_name>>

NextNames ==
    \/ CfNormalize
    \/ R53Normalize
    \/ ImportNormalize
    \/ ScanNormalize

SpecNames == InitNames /\ [][NextNames]_vars

(***************************************************************************)
(* validate_zones.py, main.  The directory dns_zones exists and holds at   *)
(* most MaxZones zone files, each named after the zone e.c.                *)
(***************************************************************************)
InitValidate ==
    /\ CleanupIdle
    /\ NamesIdle
    /\ global_tunnels \in GlobalTunnels
    /\ processed = 0
    /\ zone_doc = NoDocument
    /\ vpc = "loop"
    /\ errors = <<>>
    /\ warnings = <<>>
    /\ total_errors = 0
    /\ total_warnings = 0
    /\ failed_zones = 0
    /\ exit_code = -1

\* line 253: the loop takes the next zone file
VzNextZone ==
    /\ vpc = "loop"
    /\ processed < MaxZones
    /\ \E doc \in ZoneDocuments : zone_doc' = doc
    /\ processed' = processed + 1
    /\ vpc' = "validate"
    /\ UNCHANGED <<cleanup_vars, names_vars, global_tunnels, errors, warnings,
                   total_errors, total_warnings, failed_zones, exit_code>>

\* line 254: the call of validate_zone_file; an exception that leaves it ends
\* the interpreter with status 1
VzValidate ==
    /\ vpc = "validate"
    /\ LET result == validate_zone_file(zone_doc, FileName, global_tunnels)
       IN IF result.raised
          THEN /\ vpc' = "raised"
               /\ exit_code' = 1
               /\ UNCHANGED <<errors, warnings>>
          ELSE /\ vpc' = "report"
               /\ errors' = result.errors
               /\ warnings' = result.warnings
               /\ UNCHANGED exit_code
    /\ UNCHANGED <<cleanup_vars, names_vars, global_tunnels, processed, zone_doc,
                   total_errors, total_warnings, failed_zones>>

\* lines 256-267: the report of the zone file and the count of its errors
VzReport ==
    /\ vpc = "report"
    /\ total_errors' = total_errors + Len(errors)
    /\ total_warnings' = IF Len(errors) = 0 THEN total_warnings + Len(warnings)
                         ELSE total_warnings
    /\ failed_zones' = failed_zones + (IF Len(errors) > 0 THEN 1 ELSE 0)
    /\ zone_doc' = NoDocument
    /\ errors' = <<>>
    /\ warnings' = <<>>
    /\ vpc' = "loop"
    /\ UNCHANGED <<cleanup_vars, names_vars, global_tunnels, processed, exit_code>>

\* lines 246-248 and 269-280: no zone file is left
VzExit ==
    /\ vpc = "loop"
    /\ exit_code' = exit_status(total_errors, total_warnings)
    /\ vpc' = "exit"
    /\ UNCHANGED <<cleanup_vars, names_vars, global_tunnels, processed, zone_doc,
                   errors, warnings, total_errors, total_warnings, failed_zones>>

NextValidate ==
    \/ VzNextZone
    \/ VzValidate
    \/ VzReport
    \/ VzExit

SpecValidate == InitValidate /\ [][NextValidate]_vars

(***************************************************************************)
(* Vocabulary of the properties.                                           *)
(***************************************************************************)
\* name, type and identity key of a live record, as the running script reads them
NameOf(r) == IF script = "cloudflare" THEN r.name ELSE r53_name(r)
TypeOf(r) == IF script = "cloudflare" THEN Upper(r.type) ELSE r.Type
KeyOf(r) == IF script = "cloudflare" THEN LiveKey(r) ELSE r53_key(r)
IsNsSoa(r) == TypeOf(r) \in {TypeNS, TypeSOA}

\* the desired key set of the zone file, as the running script builds it
Desired ==
    IF script = "cloudflare"
    THEN load_defined_records(zone_file, zone_file.zone_name)
    ELSE r53_load_defined_records(zone_file, zone_file.zone_name)

\* the script handles the zone: it is not skipped for its provider or for a
\* missing zone at the provider
Handled == hosted /\ (script = "cloudflare" => is_cloudflare(zone_file))

\* the zone file names the provider the running script cleans
Declared ==
    IF script = "cloudflare" THEN is_cloudflare(zone_file)
    ELSE \/ Get(zone_file, "provider", "None") = "route53"
         \/ "route53" \in Range(Get(zone_file, "providers", <<>>))

\* the pass over the zone ran to its end
PassDone == pc = "done" /\ Handled

\* the records of the zone file
ZoneRecords == Range(zone_file.records)

(***************************************************************************)
(* C1.  A cleanup pass only issues a delete for a record that was live     *)
(* when the pass started and whose identity key is not in the key set      *)
(* load_defined_records builds from the zone file.                         *)
(***************************************************************************)
C1_DeleteOnlyUndesired ==
    LET desired == Desired
    IN \A r \in toDelete : r \in Range(live) /\ KeyOf(r) \notin desired

\* a finished pass that deleted one live record and kept a desired one
C1_Witness ==
    /\ PassDone
    /\ toDelete # {}
    /\ \E r \in Range(live) \ toDelete : ~IsNsSoa(r) /\ KeyOf(r) \in Desired

(***************************************************************************)
(* C2.  Apex protection: a live A record whose name is the zone name is    *)
(* never deleted.                                                          *)
(***************************************************************************)
C2_ApexNeverDeleted ==
    Declared =>
      \A r \in toDelete : ~(NameOf(r) = zone_file.zone_name /\ TypeOf(r) = TypeA)

(***************************************************************************)
(* C3.  NS and SOA take no part in the diff: whatever the letter case of   *)
(* a zone file record's type, load_defined_records returns no key of type  *)
(* NS or SOA, and no live NS or SOA record is deleted or printed.          *)
(***************************************************************************)
C3_NsSoaExcluded ==
    /\ \A k \in defined : Upper(k[2]) \notin {TypeNS, TypeSOA}
    /\ \A r \in toDelete : ~IsNsSoa(r)
    /\ \A line \in output : Len(line) >= 3 => line[3] \notin {TypeNS, TypeSOA}

\* a finished pass over a zone file with an NS or SOA record in lower or mixed
\* case and another record, against a provider holding NS or SOA and a stray
C3_Witness ==
    /\ PassDone
    /\ \E rec \in ZoneRecords :
         Upper(rec.type) \in {TypeNS, TypeSOA} /\ rec.type \notin {TypeNS, TypeSOA}
    /\ defined # {}
    /\ \E r \in Range(live) : IsNsSoa(r)
    /\ toDelete # {}

(***************************************************************************)
(* C4.  MX independence.                                                   *)
(***************************************************************************)
\* the (priority, value) pairs the zone file gives for MX at a name
MxEntries(fq) ==
    UNION { { <<mx.priority, mx.value>> : mx \in Range(Get(rec, "mx_records", <<>>)) } :
              rec \in { x \in ZoneRecords : /\ Upper(x.type) = TypeMX
                                           /\ Fqdn(x.name, zone_file.zone_name) = fq } }

\* the names the zone file gives MX records for
MxNames == { Fqdn(x.name, zone_file.zone_name) :
               x \in { y \in ZoneRecords : Upper(y.type) = TypeMX } }

\* the keys of the desired set for MX at a name
MxKeys(fq) == { k \in defined : k[1] = fq /\ k[2] = TypeMX }

\* C4 as stated, for every cleanup pass over a zone with live MX at
\* the name: the n entries are n keys (fqdn, MX, priority, value), and of the
\* live MX records at the name exactly those of entries no longer in the zone
\* file are deleted
C4_MxIndependent ==
    (PassDone /\ Declared) =>
      \A fq \in { n \in MxNames :
                   \E r \in Range(live) : NameOf(r) = n /\ TypeOf(r) = TypeMX } :
        /\ MxKeys(fq) = { <<fq, TypeMX, e[1], e[2]>> : e \in MxEntries(fq) }
        /\ \A r \in Range(live) :
             (NameOf(r) = fq /\ TypeOf(r) = TypeMX /\ "priority" \in DOMAIN r)
               => (r \in toDelete <=> <<r.priority, r.content>> \notin MxEntries(fq))

\* C4, amended: the claim holds of the Cloudflare pass; the Route53 pass keys
\* the MX record set of a name by (fqdn, MX, set_identifier), one key whatever
\* the number of entries, and never deletes the record set of that key
C4_MxIndependentCloudflare ==
    PassDone =>
      \A fq \in MxNames :
        IF script = "cloudflare"
        THEN /\ MxKeys(fq) = { <<fq, TypeMX, e[1], e[2]>> : e \in MxEntries(fq) }
             /\ Cardinality(MxKeys(fq)) = Cardinality(MxEntries(fq))
             /\ \A r \in Range(live) :
                  (NameOf(r) = fq /\ TypeOf(r) = TypeMX)
                    => (r \in toDelete <=> <<r.priority, r.content>> \notin MxEntries(fq))
        ELSE /\ MxKeys(fq) = { <<fq, TypeMX, Get(x, "set_identifier", None)>> :
                                 x \in { y \in ZoneRecords :
                                           /\ Upper(y.type) = TypeMX
                                           /\ Fqdn(y.name, zone_file.zone_name) = fq } }
             /\ \A r \in Range(live) :
                  (NameOf(r) = fq /\ TypeOf(r) = TypeMX /\ KeyOf(r) \in MxKeys(fq))
                    => r \notin toDelete

\* a finished Cloudflare pass: the zone file has one MX entry left, two MX
\* records are live, the one of the removed entry is deleted and the other kept
C4_Witness ==
    /\ PassDone
    /\ script = "cloudflare"
    /\ \E fq \in MxNames :
         /\ Cardinality(MxEntries(fq)) = 1
         /\ \E r1, r2 \in Range(live) :
              /\ NameOf(r1) = fq /\ TypeOf(r1) = TypeMX
              /\ NameOf(r2) = fq /\ TypeOf(r2) = TypeMX
              /\ r1 \notin toDelete
              /\ toDelete = {r2}

(***************************************************************************)
(* C5.  TXT quoting: a live TXT record whose content is a desired value in *)
(* one pair of double quotes matches the desired key and is not deleted.   *)
(***************************************************************************)
\* the content is some v in one pair of enclosing double quotes
Quoted(content) ==
    /\ Len(content) >= 2
    /\ content[1] = Quote
    /\ content[Len(content)] = Quote

\* C5: in a Cloudflare pass a live TXT record with content "v" in quotes,
\* where (fqdn, TXT, v) is desired, gets no delete call
C5_QuotedTxtKept ==
    \A r \in Range(live) :
      ( /\ script = "cloudflare"
        /\ TypeOf(r) = TypeTXT
        /\ Quoted(r.content)
        /\ <<r.name, TypeTXT, SubSeq(r.content, 2, Len(r.content) - 1)>> \in Desired )
      => r \notin toDelete

\* a finished Cloudflare pass that deleted a record and kept a quoted TXT record
\* whose unquoted content is desired
C5_Witness ==
    /\ PassDone
    /\ script = "cloudflare"
    /\ toDelete # {}
    /\ \E r \in Range(live) :
         /\ TypeOf(r) = TypeTXT
         /\ Quoted(r.content)
         /\ <<r.name, TypeTXT, SubSeq(r.content, 2, Len(r.content) - 1)>> \in Desired
         /\ r \notin toDelete

(***************************************************************************)
(* Protection classes of the reconciliation design (apex, ownership        *)
(* markers, protected infrastructure names).  The scripts define none of   *)
(* them; they are stated here to express the properties about them.        *)
(***************************************************************************)
\* stands for the externally reserved ownership-marker prefix
OwnershipPrefix == <<"_", "o", "w", "n", ".">>

\* the ACME challenge, DMARC and DKIM namespaces
InfrastructureMarkers == {
    <<"_", "a", "c", "m", "e", "-", "c", "h", "a", "l", "l", "e", "n", "g", "e">>,
    <<"_", "d", "m", "a", "r", "c">>,
    <<"_", "d", "o", "m", "a", "i", "n", "k", "e", "y">>
}

IsApex(r) == NameOf(r) = zone_file.zone_name

IsOwnershipMarker(r) == TypeOf(r) = TypeTXT /\ StartsWith(NameOf(r), OwnershipPrefix)

\* the names a live ownership marker asserts
OwnedNames ==
    { SubSeq(NameOf(m), Len(OwnershipPrefix) + 1, Len(NameOf(m))) :
        m \in { x \in Range(live) : IsOwnershipMarker(x) } }

Protected(r) ==
    \/ IsOwnershipMarker(r)
    \/ NameOf(r) \in OwnedNames
    \/ \E mk \in InfrastructureMarkers : Contains(NameOf(r), mk)

\* the keys of the live records that take part in the comparison
LiveKeys == { KeyOf(r) : r \in { x \in Range(live) : ~IsNsSoa(x) } }

\* the keys of the live records the pass compared and did not delete
Satisfied == { KeyOf(r) : r \in { x \in Range(live) \ toDelete : ~IsNsSoa(x) } }

(***************************************************************************)
(* C6.  Completeness of the delete set: after a pass, every live record    *)
(* that is not NS/SOA, not at the apex, not protected and whose key is not *)
(* desired has had its delete call; the keys kept are the desired keys     *)
(* that are live; nothing live means nothing deleted and nothing           *)
(* satisfied; and the end-to-end scenario has the stated result.           *)
(***************************************************************************)
C6_DeleteSetComplete ==
    PassDone =>
      LET desired == Desired
      IN
      /\ \A r \in Range(live) :
           (~IsNsSoa(r) /\ ~IsApex(r) /\ KeyOf(r) \notin desired /\ ~Protected(r))
             => r \in toDelete
      /\ Satisfied = desired \cap LiveKeys
      /\ live = <<>> => (toDelete = {} /\ Satisfied = {})
      /\ desired = {} =>
           \A r \in Range(live) :
             (~IsNsSoa(r) /\ ~IsApex(r) /\ ~Protected(r)) => r \in toDelete
      /\ ( /\ script = "cloudflare"
           /\ desired = { <<WFqdn, TypeA, <<"1">>>> }
           /\ live = << CloudflareCatalogue[1], CloudflareCatalogue[2],
                        CloudflareCatalogue[3] >> )
         => /\ toDelete = { CloudflareCatalogue[2] }
            /\ Satisfied = { <<WFqdn, TypeA, <<"1">>>> }

\* the end-to-end scenario, after the pass: www A desired and live, old A
\* live only, an NS record live, the third record on a second page
C6_Witness ==
    /\ PassDone
    /\ script = "cloudflare"
    /\ Desired = { <<WFqdn, TypeA, <<"1">>>> }
    /\ live = << CloudflareCatalogue[1], CloudflareCatalogue[2], CloudflareCatalogue[3] >>
    /\ toDelete = { CloudflareCatalogue[2] }

(***************************************************************************)
(* C7.  Protected names: an ownership-marker TXT record, a record whose    *)
(* name such a marker asserts, and a record in a protected infrastructure  *)
(* namespace are never deleted.                                            *)
(***************************************************************************)
C7_ProtectedNeverDeleted ==
    Declared => \A r \in toDelete : ~Protected(r)

(***************************************************************************)
(* C8.  A TUNNEL record whose CNAME is live is in the desired set as       *)
(* (fqdn, TUNNEL, tunnel.name), and the live CNAME at its fqdn is not      *)
(* deleted.                                                                *)
(***************************************************************************)
C8_TunnelTracked ==
    (PassDone /\ Declared) =>
      \A rec \in { x \in ZoneRecords : Upper(x.type) = TypeTUNNEL } :
        LET fq == Fqdn(rec.name, zone_file.zone_name)
        IN (\E r \in Range(live) : NameOf(r) = fq /\ TypeOf(r) = TypeCNAME)
           => /\ <<fq, TypeTUNNEL, rec.tunnel.name>> \in defined
              /\ \A r \in toDelete : ~(NameOf(r) = fq /\ TypeOf(r) = TypeCNAME)

(***************************************************************************)
(* C9.  Drift reporting.                                                   *)
(***************************************************************************)
\* C9 as stated: after a pass every desired key that is not live is named
\* by a line of the output
C9_DriftReported ==
    (PassDone /\ Declared) =>
      \A k \in Desired \ LiveKeys :
        \E line \in output : Len(line) >= 3 /\ line[2] = k[1] /\ line[3] = k[2]

\* C9, amended: a desired key that is not live is neither acted on nor
\* reported.  Every line that names a record is the line of a delete call for
\* a live record, the provider's records only ever shrink, and by the records
\* of the delete calls alone
C9_MissingNotReported ==
    /\ \A line \in output :
         Len(line) >= 3 =>
           \E r \in toDelete : NameOf(r) = line[2] /\ TypeOf(r) = line[3]
    /\ Range(remote) \subseteq Range(live)
    /\ Range(live) \ Range(remote) \subseteq toDelete

\* a finished pass with a desired key missing at the provider, a stray record
\* deleted there and a line printed for it
C9_Witness ==
    /\ PassDone
    /\ Declared
    /\ Desired \ LiveKeys # {}
    /\ Range(live) \ Range(remote) # {}
    /\ \E line \in output : Len(line) >= 3

(***************************************************************************)
(* C10.  set_identifier in the identity key.                               *)
(***************************************************************************)
\* the keys one record of the zone file gives, as the running script builds them
KeysOfRecord(rec) ==
    IF script = "cloudflare" THEN DefinedKeys(rec, zone_file.zone_name)
    ELSE r53_DefinedKeys(rec, zone_file.zone_name)

\* two records of the zone file with the same name and type
SameNameType(x, y) ==
    /\ Fqdn(x.name, zone_file.zone_name) = Fqdn(y.name, zone_file.zone_name)
    /\ Upper(x.type) = Upper(y.type)

\* a record of the zone file matches the live record in name, type and
\* set identifier
MatchesLive(rec, r) ==
    /\ Fqdn(rec.name, zone_file.zone_name) = NameOf(r)
    /\ Upper(rec.type) = TypeOf(r)
    /\ Get(rec, "set_identifier", None) = Get(r, "SetIdentifier", None)

\* C10 as stated, for every cleanup pass: records that differ in
\* set_identifier only have no key in common, and a live record is kept only
\* for a record of the zone file with its set identifier
C10_SetIdentifierInKey ==
    (PassDone /\ Declared) =>
      /\ \A x, y \in ZoneRecords :
           ( /\ SameNameType(x, y)
             /\ Get(x, "set_identifier", None) # Get(y, "set_identifier", None) )
           => KeysOfRecord(x) \cap KeysOfRecord(y) = {}
      /\ \A r \in Range(live) \ toDelete :
           ~IsNsSoa(r) => \E rec \in ZoneRecords : MatchesLive(rec, r)

\* C10, amended: the claim holds of the Route53 pass, where a record without
\* set_identifier has None in the key; the Cloudflare pass does not read
\* set_identifier, its keys are (fqdn, type, value) whatever set_identifier is
C10_SetIdentifierInRoute53Key ==
    PassDone =>
      IF script = "route53"
      THEN /\ \A x, y \in ZoneRecords :
                ( /\ SameNameType(x, y)
                  /\ Upper(x.type) \notin {TypeNS, TypeSOA}
                  /\ Get(x, "set_identifier", None) # Get(y, "set_identifier", None) )
                => /\ KeysOfRecord(x) \cap KeysOfRecord(y) = {}
                   /\ KeysOfRecord(x) \cup KeysOfRecord(y) \subseteq defined
                   /\ Cardinality({ k \in defined : k \in KeysOfRecord(x) \cup KeysOfRecord(y) }) = 2
           /\ \A r \in Range(live) \ toDelete :
                ~IsNsSoa(r) => \E rec \in ZoneRecords : MatchesLive(rec, r)
           /\ \A rec \in ZoneRecords :
                ("set_identifier" \notin DOMAIN rec /\ Upper(rec.type) \notin {TypeNS, TypeSOA})
                  => <<Fqdn(rec.name, zone_file.zone_name), Upper(rec.type), None>> \in defined
      ELSE \A rec \in ZoneRecords :
             (Upper(rec.type) \notin {TypeNS, TypeSOA, TypeMX} /\ is_cloudflare(zone_file))
               => { k \in defined : k \in KeysOfRecord(rec) }
                    = { <<Fqdn(rec.name, zone_file.zone_name), Upper(rec.type), v>> :
                          v \in Range(Get(rec, "values", <<>>)) }

\* a finished Route53 pass: the zone file has the record of one set identifier,
\* the record sets of two are live, one is kept and the other deleted
C10_Witness ==
    /\ PassDone
    /\ script = "route53"
    /\ \E r1, r2 \in Range(live) :
         /\ "SetIdentifier" \in DOMAIN r1
         /\ "SetIdentifier" \in DOMAIN r2
         /\ NameOf(r1) = NameOf(r2) /\ TypeOf(r1) = TypeOf(r2)
         /\ r1 \notin toDelete
         /\ r2 \in toDelete


(***************************************************************************)
(* C11.  Every script that normalises a record name computes resolveFQDN:  *)
(* the name unchanged when it is the zone name or ends with "." and the    *)
(* zone name, the zone name for "@", and name "." zone otherwise (so "*"   *)
(* gives "*." zone).                                                       *)
(***************************************************************************)
\* resolveFQDN as the specification states it
resolveFQDN(name, zone) ==
    IF name = <<"@">> THEN zone
    ELSE IF name = zone \/ EndsWith(name, <<".">> \o zone) THEN name
    ELSE name \o <<".">> \o zone

\* C11: whichever script normalised the record name, the result is
\* resolveFQDN of the name and the zone
C11_SameFqdn ==
    normalizer # "none" => full_name = resolveFQDN(rec_name, Zone)

(***************************************************************************)
(* Vocabulary of the properties of validate_zones.py.                      *)
(***************************************************************************)
\* validate_zone_file has ended for zone_doc: it returned its lists, or an
\* exception left it and nothing was reported
Ended == vpc \in {"report", "raised"}

\* zone_doc is a YAML mapping
IsMapping == zone_doc.yaml = "ok" /\ isinstance(zone_doc.data, "dict")

\* the entries of the records list of zone_doc
DocRecords ==
    IF IsMapping /\ "records" \in DOMAIN zone_doc.data.d
                 /\ isinstance(zone_doc.data.d.records, "list")
    THEN zone_doc.data.d.records.items
    ELSE <<>>

\* entry i of the records list is a mapping whose type is a string
TypedRecord(i) ==
    /\ isinstance(DocRecords[i], "dict")
    /\ "type" \in DOMAIN DocRecords[i].d
    /\ isinstance(DocRecords[i].d.type, "str")

\* the number of messages of a list that are about record i and carry text
RecordMessages(list, i, text) ==
    Cardinality({ k \in 1..Len(list) : /\ list[k][1] = "Record at index"
                                        /\ Len(list[k]) >= 5
                                        /\ list[k][2] = i - 1
                                        /\ list[k][5] = text })

\* the texts of a list of messages
Texts(list) == { list[k][1] : k \in 1..Len(list) }

\* entry i of the records list has proxied: true
ProxiedTrue(i) ==
    /\ TypedRecord(i)
    /\ "proxied" \in DOMAIN DocRecords[i].d
    /\ DocRecords[i].d.proxied = PyBool(TRUE)

\* the errors about the proxied field of record i
ProxiedErrors(i) ==
    RecordMessages(errors, i, "Cannot set 'proxied: true'")
    + RecordMessages(errors, i, "'proxied' field must be a boolean (true/false)")

(***************************************************************************)
(* C12.  Every record with proxied: true and a type outside A, AAAA and    *)
(* CNAME gets an error, and proxied: true on a record of type A, AAAA or   *)
(* CNAME gets no error about proxied.                                      *)
(***************************************************************************)
\* C12: when validate_zone_file has ended, by a return or by an exception,
\* the errors it reported (none when an exception ended it) hold an error
\* for every record with proxied: true and a type outside A, AAAA and CNAME,
\* and no error about proxied for proxied: true on an A, AAAA or CNAME record
C12_ProxiedTypeError ==
    Ended =>
        \A i \in 1..Len(DocRecords) :
            ProxiedTrue(i) =>
                IF Upper(DocRecords[i].d.type.s) \in PROXIABLE_RECORD_TYPES
                THEN ProxiedErrors(i) = 0
                ELSE RecordMessages(errors, i, "Cannot set 'proxied: true'") >= 1

(***************************************************************************)
(* C13.  The provider declaration rule.                                    *)
(***************************************************************************)
\* the errors lines 83-110 can append
ProviderErrorTexts == {
    "Missing required field: either 'provider' or 'providers'",
    "Cannot specify both 'provider' and 'providers' fields",
    "Provider must be a string", "Unsupported provider",
    "Providers must be a list", "Providers list cannot be empty",
    "Provider at index must be a string", "Unsupported provider at index",
    "Duplicate providers found in providers list" }

Supported(value) == isinstance(value, "str") /\ value.s \in {Route53Name, CloudflareName}

\* the declaration breaks the rule: both forms, neither, a value that is not
\* route53 or cloudflare, an empty providers list, a list with duplicates
BadDeclaration(doc) ==
    LET has_provider == "provider" \in DOMAIN doc
        has_providers == "providers" \in DOMAIN doc
        is_list == has_providers /\ isinstance(doc.providers, "list")
    IN \/ has_provider /\ has_providers
       \/ ~has_provider /\ ~has_providers
       \/ has_provider /\ ~Supported(doc.provider)
       \/ is_list /\ \E k \in 1..Len(doc.providers.items) : ~Supported(doc.providers.items[k])
       \/ is_list /\ Len(doc.providers.items) = 0
       \/ is_list /\ \E k, l \in 1..Len(doc.providers.items) :
                         k # l /\ doc.providers.items[k] = doc.providers.items[l]

\* exactly one of the two forms, well-formed
GoodDeclaration(doc) ==
    LET has_provider == "provider" \in DOMAIN doc
        has_providers == "providers" \in DOMAIN doc
    IN \/ has_provider /\ ~has_providers /\ Supported(doc.provider)
       \/ /\ has_providers /\ ~has_provider
          /\ isinstance(doc.providers, "list")
          /\ Len(doc.providers.items) > 0
          /\ \A k \in 1..Len(doc.providers.items) : Supported(doc.providers.items[k])
          /\ \A k, l \in 1..Len(doc.providers.items) :
                k # l => doc.providers.items[k] # doc.providers.items[l]

\* C13: when validate_zone_file has ended for a mapping, by a return or by
\* an exception, the errors it reported (none when an exception ended it)
\* hold an error of lines 83-110 when the declaration breaks the rule, and
\* none when the declaration is one well-formed form
C13_ProviderRule ==
    (Ended /\ IsMapping) =>
        /\ BadDeclaration(zone_doc.data.d) => Texts(errors) \cap ProviderErrorTexts # {}
        /\ GoodDeclaration(zone_doc.data.d) => Texts(errors) \cap ProviderErrorTexts = {}

(***************************************************************************)
(* C14.  An unresolved tunnel reference gives exactly one error.           *)
(***************************************************************************)
\* the names of the merged tunnel mapping: the global tunnels and the
\* entries of the zone's tunnels
MergedTunnelNames ==
    global_tunnels \cup
        (IF "tunnels" \in DOMAIN zone_doc.data.d /\ isinstance(zone_doc.data.d.tunnels, "dict")
         THEN { zone_doc.data.d.tunnels.pairs[k][1] :
                   k \in 1..Len(zone_doc.data.d.tunnels.pairs) }
         ELSE {})

\* entry i of the records list is a TUNNEL record whose tunnel.name is a string
TunnelReference(i) ==
    /\ TypedRecord(i)
    /\ Upper(DocRecords[i].d.type.s) = TypeTUNNEL
    /\ "tunnel" \in DOMAIN DocRecords[i].d
    /\ isinstance(DocRecords[i].d.tunnel, "dict")
    /\ "name" \in DOMAIN DocRecords[i].d.tunnel.d
    /\ isinstance(DocRecords[i].d.tunnel.d.name, "str")

Unresolved(i) == RecordMessages(errors, i, "Referenced tunnel is not defined in 'tunnels' section")

\* C14: when validate_zone_file has ended, by a return or by an exception,
\* the errors it reported (none when an exception ended it) hold exactly
\* one unresolved-tunnel error for a TUNNEL record whose tunnel.name is a
\* string outside the merged tunnel mapping, whatever else the file holds
C14_OneUnresolvedError ==
    Ended =>
        \A i \in 1..Len(DocRecords) :
            (TunnelReference(i) /\ DocRecords[i].d.tunnel.d.name.s \notin MergedTunnelNames)
                => Unresolved(i) = 1

(***************************************************************************)
(* C15.  Every violated rule is in the returned lists.                     *)
(***************************************************************************)
\* the zone of zone_doc does not list cloudflare among its providers
NotOnCloudflare ==
    LET doc == zone_doc.data.d
    IN /\ "provider" \in DOMAIN doc => doc.provider # Str(CloudflareName)
       /\ ("providers" \in DOMAIN doc /\ isinstance(doc.providers, "list"))
             => Str(CloudflareName) \notin Range(doc.providers.items)

\* C15: when validate_zone_file has ended for a mapping, the lists it
\* returned (none when an exception ended it) hold the error of a missing
\* zone_name, the error of every non-boolean proxied field, the warning of
\* every proxied field on a zone without cloudflare, the warning of a tunnels
\* field on a zone without cloudflare and the error of every tunnels entry
\* that is not an object with a string tunnel_id
C15_AllViolationsReported ==
    (Ended /\ IsMapping) =>
        LET doc == zone_doc.data.d
        IN /\ "zone_name" \notin DOMAIN doc
                => "Missing required field: zone_name" \in Texts(errors)
           /\ \A i \in 1..Len(DocRecords) :
                (/\ TypedRecord(i)
                 /\ Upper(DocRecords[i].d.type.s) # TypeTUNNEL
                 /\ "proxied" \in DOMAIN DocRecords[i].d)
                => /\ ~isinstance(DocRecords[i].d.proxied, "bool")
                        => RecordMessages(errors, i,
                              "'proxied' field must be a boolean (true/false)") = 1
                   /\ NotOnCloudflare
                        => RecordMessages(warnings, i,
                              "'proxied' field is set but this zone does not use Cloudflare as a provider") = 1
           /\ ("tunnels" \in DOMAIN doc /\ NotOnCloudflare)
                => "'tunnels' field is defined but this zone does not use Cloudflare" \in Texts(warnings)
           /\ ("tunnels" \in DOMAIN doc /\ isinstance(doc.tunnels, "dict"))
                => \A k \in 1..Len(doc.tunnels.pairs) :
                     LET config == doc.tunnels.pairs[k][2]
                     IN /\ ~isinstance(config, "dict")
                            => "Tunnel configuration must be a dictionary/object" \in Texts(errors)
                        /\ (isinstance(config, "dict") /\ "tunnel_id" \notin DOMAIN config.d)
                            => "Tunnel is missing required field: tunnel_id" \in Texts(errors)

(***************************************************************************)
(* C16.  The exit status of the validation run.                            *)
(***************************************************************************)
\* C16: the run ends with status 1 when a zone file had an error (or ended
\* validate_zone_file with an exception) and with status 0 otherwise,
\* whatever the number of warnings
C16_ExitCode ==
    exit_code # -1 =>
        exit_code = (IF failed_zones > 0 \/ vpc = "raised" THEN 1 ELSE 0)

\* two zone files, both with warnings and without errors: status 0
C16_Witness ==
    /\ vpc = "exit"
    /\ processed = 2
    /\ total_warnings >= 2
    /\ failed_zones = 0
    /\ exit_code = 0

(***************************************************************************)
(* C17.  Malformed input is fatal for its own zone only.                   *)
(***************************************************************************)
\* C17: validate_zone_file returns its two lists for every zone file, so no
\* run of main is ended by an exception of validate_zone_file and the loop
\* goes on to the next zone file
C17_MalformedIsLocal == vpc # "raised"

(***************************************************************************)
(* C18.  TXT comparison strips one pair of enclosing double quotes from    *)
(* the desired value as well as from the live content.                     *)
(***************************************************************************)
\* a value without its one pair of enclosing double quotes
Unquoted(s) ==
    IF Len(s) >= 2 /\ s[1] = Quote /\ s[Len(s)] = Quote THEN StripEnds(s) ELSE s

\* C18: the Cloudflare cleanup deletes no live TXT record whose content,
\* quotes stripped, is a value, quotes stripped, of a TXT record the zone
\* file has for that name
C18_SymmetricQuoteStripping ==
    script = "cloudflare" =>
        \A r \in toDelete :
            Upper(r.type) = TypeTXT =>
                ~\E rec \in ZoneRecords :
                    /\ Upper(rec.type) = TypeTXT
                    /\ Fqdn(rec.name, zone_file.zone_name) = r.name
                    /\ \E v \in Range(Get(rec, "values", <<>>)) :
                          Unquoted(v) = Unquoted(r.content)

(***************************************************************************)
(* C19.  Idempotence: a second computation from the same zone file and the *)
(* same unchanged snapshot gives the same result, and nothing kept from an *)
(* earlier pass has a part in it.                                          *)
(***************************************************************************)
\* the keys of the records of a snapshot that were compared and not deleted
SatisfiedOf(snapshot, deleted) ==
    { KeyOf(r) : r \in { x \in Range(snapshot) \ deleted : ~IsNsSoa(x) } }

\* the delete set of the zone file and the snapshot of the pass alone
ChangeSet ==
    LET desired == Desired
    IN { r \in Range(live) : ~IsNsSoa(r) /\ KeyOf(r) \notin desired }

\* C19: when the second pass has ended, its delete set and its satisfied
\* keys are those of the first pass if the zone file is the same and the
\* snapshot is unchanged, and its delete set is the one its own zone file
\* and snapshot determine, whatever the first pass worked on
C19_Idempotent ==
    (first.done /\ PassDone) =>
        /\ (zone_file = first.zone_file /\ live = first.live)
              => /\ toDelete = first.toDelete
                 /\ Satisfied = SatisfiedOf(first.live, first.toDelete)
        /\ toDelete = ChangeSet

\* two dry-run passes of the Cloudflare cleanup over the same zone file and
\* the same live records, each with a record to delete and a record to keep
C19_Witness ==
    /\ first.done /\ PassDone
    /\ script = "cloudflare" /\ dry_run
    /\ zone_file = first.zone_file /\ live = first.live /\ remote = live
    /\ toDelete # {} /\ toDelete = first.toDelete
    /\ Satisfied # {}

(***************************************************************************)
(* C20.  Fetch before delete: no delete call is made for a zone before     *)
(* every page of its live records has been fetched.                        *)
(***************************************************************************)
\* the listing of the zone has been fetched to its last page
FetchedAll ==
    IF script = "cloudflare"
    THEN page >= total_pages(Len(live)) /\ existing_records = live
    ELSE marker = <<>>

\* C20: once a cleanup script has made a delete call for a zone of its
\* provider, the listing of the zone has been fetched to its last page (in
\* the Cloudflare cleanup: the list the decisions are taken from is the
\* listing as it was when the pass started)
C20_FetchBeforeDelete ==
    (Declared /\ toDelete # {}) => FetchedAll

(***************************************************************************)
(* C21.  Convergence: a second pass over a zone whose first pass deleted   *)
(* for real and to its end issues no delete; a dry-run pass sends no       *)
(* delete request and leaves the provider's records as they were.          *)
(***************************************************************************)
\* a delete request went to the provider: delete_dns_record got past its
\* dry-run return (the "Deleting" line), or the Route53 loop made its call
DeleteRequested == \E line \in output : line[1] = "Deleting"

\* the first pass was not a dry run and ended with every delete accepted,
\* and the zone file of the second pass is that of the first
SecondPassSameZone ==
    first.done /\ ~dry_run /\ zone_file = first.zone_file

\* C21: in the second pass after a completed non-dry-run pass over the same
\* zone file no delete is issued and the provider's records stay; in a
\* dry-run pass no delete request is sent, no request can fail, and the
\* provider's records are those the pass started with
C21_Convergence ==
    /\ SecondPassSameZone
          => (toDelete = {} /\ ~DeleteRequested /\ remote = live /\ pc # "failed")
    /\ dry_run
          => (~DeleteRequested /\ remote = live /\ pc # "failed")

\* the second pass has ended without a delete, after a first pass that
\* deleted a record for real and left another in place
C21_Witness ==
    /\ SecondPassSameZone /\ PassDone
    /\ first.toDelete # {}
    /\ live # first.live /\ live # <<>>
    /\ Range(live) = Range(first.live) \ first.toDelete
    /\ toDelete = {}

(***************************************************************************)
(* C22.  Provider scoping: a cleanup script deletes at its provider only   *)
(* for a zone whose zone file names that provider.                         *)
(***************************************************************************)
\* C22: a delete is issued only when the zone file names the provider of the
\* running script, in provider or in providers
C22_ProviderScoped == toDelete # {} => Declared

=============================================================================
